---- MODULE Spec2Model ----
(***************************************************************************)
(* A model of star-realms-rs (src/src/lib.rs, src/src/error.rs): the       *)
(* session bootstrap (login, core-version discovery), the activity fetch   *)
(* and the pure helpers of ClientData and Game.                            *)
(*                                                                         *)
(* Spec     : one StarRealms session, from the constructor call to the     *)
(*            activity() calls made on the returned session.  The server   *)
(*            is a black box: every request gets a nondeterministic reply. *)
(* SpecGame : the pure functions get_auth, is_player_one and which_turn    *)
(*            applied to Game values drawn from bounded sets.              *)
(***************************************************************************)
EXTENDS Integers, Sequences, FiniteSets, TLC

VARIABLES
    pc,             \* where the caller is: idle, new_token, find_core_version, ready, failed
    ctor,           \* which constructor was called
    given,          \* the caller's argument: the bearer string or the Token
    token,          \* StarRealms.token
    core_version,   \* StarRealms.core_version
    candidate,      \* the loop variable of find_core_version
    wire,           \* every request the client sent, in order, with the class of its reply
    lastResponse,   \* the reply to the most recent request
    result,         \* what the constructor returned
    activityResult, \* what the most recent activity() call returned
    calls,          \* number of activity() calls made
    versionWrites,  \* number of assignments to core_version after construction
    game,           \* SpecGame: the Game value under test
    queryName,      \* SpecGame: the argument of get_auth
    gop,            \* SpecGame: the method applied last
    authResult,     \* SpecGame: what get_auth returned
    playerOne,      \* SpecGame: what is_player_one returned
    turnResult      \* SpecGame: what which_turn returned

sessionVars == <<pc, ctor, given, token, core_version, candidate, wire, lastResponse,
                 result, activityResult, calls, versionWrites>>
gameVars == <<game, queryName, gop, authResult, playerOne, turnResult>>
vars == <<pc, ctor, given, token, core_version, candidate, wire, lastResponse,
          result, activityResult, calls, versionWrites,
          game, queryName, gop, authResult, playerOne, turnResult>>

----------------------------------------------------------------------------
(* Bounds of the model *)

MaxActivityCalls == 2
MaxTokenId == 2
MaxNameLen == 1
MaxAuth == 1

(* Program constants *)

InitialCoreVersion == 45
FirstCoreVersion == 45
EndCoreVersion == 100
StatusOk == 200

----------------------------------------------------------------------------
(* Values *)

\* Token::default(): empty strings, id 0, empty purchase list
DefaultToken ==
    [username |-> "", id |-> 0, token1 |-> "", token2 |-> "", purchases |-> <<>>]

Bearers == {"", "b1", "b2"}

Tokens ==
    {DefaultToken} \cup
    [username : {"alice"}, id : 1..MaxTokenId, token1 : {"k1"},
     token2 : Bearers, purchases : {<<"p1", "p2">>}]

Usernames == {"alice", "fakeuser123"}
Passwords == {"pw"}

Statuses == {StatusOk, 401, 500}

\* The snapshot an activity body decodes to (only the fields the model tells apart)
Activities == {[result |-> "ok", activegames |-> 0], [result |-> "ok", activegames |-> 1]}
NoActivity == [result |-> "", activegames |-> 0]

\* A reply: either the transport failed (sent = FALSE) or a status and a body arrived.
\* A body is a JSON document of some shape; decoding succeeds only on the right shape.
EmptyBody == [shape |-> "garbage", token |-> DefaultToken, activity |-> NoActivity]

TokenBodies ==
    {[shape |-> "Token", token |-> t, activity |-> NoActivity] : t \in Tokens}

ActivityBodies ==
    {[shape |-> "Activity", token |-> DefaultToken, activity |-> a] : a \in Activities}

TransportFailure == [sent |-> FALSE, status |-> 0, body |-> EmptyBody]

\* What the server may answer on each endpoint.  The body of a probe reply is
\* never read by the client, so probes are answered with the empty body.
LoginResponses ==
    {TransportFailure} \cup
    [sent : {TRUE}, status : Statuses, body : {EmptyBody} \cup TokenBodies]

ProbeResponses ==
    {TransportFailure} \cup [sent : {TRUE}, status : Statuses, body : {EmptyBody}]

ActivityResponses ==
    {TransportFailure} \cup
    [sent : {TRUE}, status : Statuses, body : {EmptyBody} \cup ActivityBodies]

NoResponse == [sent |-> FALSE, status |-> -1, body |-> EmptyBody]

\* Result values: Ok, or one variant of error.rs with its payload
NoResult == [kind |-> "None", payload |-> <<>>]
Ok == [kind |-> "Ok", payload |-> <<>>]
Err(kind, payload) == [kind |-> kind, payload |-> payload]

ReqwestTransport == Err("ReqwestError", <<"transport">>)
ReqwestDecode == Err("ReqwestError", <<"decode">>)

----------------------------------------------------------------------------
(* Requests *)

LoginUrl == "POST /Account/Login"
ActivityUrl == "GET /NewGame/ListActivitySortable"

\* new_token's request: the form-encoded credentials, no headers
LoginRequest(username, password) ==
    [url |-> LoginUrl, purpose |-> "login", auth |-> "", coreversion |-> 0,
     username |-> username, password |-> password]

\* Variant: the probe sends the long-lived secret token1 as bearer
ProbeRequestToken1(v) ==
    [url |-> ActivityUrl, purpose |-> "probe", auth |-> token.token1,
     coreversion |-> v, username |-> "", password |-> ""]

\* One iteration's request in find_core_version
ProbeRequest(v) ==
    [url |-> ActivityUrl, purpose |-> "probe", auth |-> token.token2,
     coreversion |-> v, username |-> "", password |-> ""]

\* activity()'s request
ActivityRequest ==
    [url |-> ActivityUrl, purpose |-> "activity", auth |-> token.token2,
     coreversion |-> core_version, username |-> "", password |-> ""]

\* How the client classifies a reply: the await failed, status 200, or another status
ReplyClass(resp) ==
    IF ~resp.sent THEN "transport"
    ELSE IF resp.status = StatusOk THEN "200" ELSE "non200"

\* One entry of the wire log: the request, the class of its reply and the shape
\* of the reply's body
Exchange(req, resp) ==
    [req |-> req, reply |-> ReplyClass(resp), shape |-> resp.body.shape]

\* StatusCode's Display: the numeric code followed by the canonical reason phrase
CanonicalReason(s) ==
    CASE s = 200 -> "OK"
      [] s = 401 -> "Unauthorized"
      [] s = 500 -> "Internal Server Error"
      [] OTHER -> "<unknown status code>"

StatusToString(s) == <<s, CanonicalReason(s)>>

InvalidAPIResponse(s) == Err("InvalidAPIResponse", StatusToString(s))
UnknownCoreVersion == Err("UnknownCoreVersion", <<>>)

----------------------------------------------------------------------------
(* The session: constructors, new_token, find_core_version, activity *)

NoArgument == [str |-> "", token |-> DefaultToken]

\* The struct literal every constructor starts from
NewSession(t) == [token |-> t, core_version |-> InitialCoreVersion]

\* `?` in a constructor: the error is returned at once and the session dropped
Propagate(e) ==
    /\ result' = e
    /\ pc' = "failed"

\* Variant: the body is decoded into self.token before the status is looked at
NewTokenParseFirst(sr, username, password, resp) ==
    /\ wire' = Append(wire, Exchange(LoginRequest(username, password), resp))
    /\ lastResponse' = resp
    /\ IF ~resp.sent
         THEN token' = sr.token /\ Propagate(ReqwestTransport)
       ELSE IF resp.body.shape # "Token"
         THEN token' = sr.token /\ Propagate(ReqwestDecode)
       ELSE IF resp.status # StatusOk
         THEN token' = resp.body.token /\ Propagate(InvalidAPIResponse(resp.status))
       ELSE /\ token' = resp.body.token
            /\ result' = NoResult
            /\ pc' = "find_core_version"

\* Variant: the constructor ignores what new_token returned and goes on to discovery
NewTokenSwallow(sr, username, password, resp) ==
    /\ wire' = Append(wire, Exchange(LoginRequest(username, password), resp))
    /\ lastResponse' = resp
    /\ token' = IF resp.sent /\ resp.status = StatusOk /\ resp.body.shape = "Token"
                  THEN resp.body.token ELSE sr.token
    /\ result' = NoResult
    /\ pc' = "find_core_version"

\* new_token: one POST; a failed await, a status other than 200 and a body that
\* does not decode as a Token each return early, leaving self.token as it was
NewToken(sr, username, password, resp) ==
    /\ wire' = Append(wire, Exchange(LoginRequest(username, password), resp))
    /\ lastResponse' = resp
    /\ IF ~resp.sent
         THEN token' = sr.token /\ Propagate(ReqwestTransport)
       ELSE IF resp.status # StatusOk
         THEN token' = sr.token /\ Propagate(InvalidAPIResponse(resp.status))
       ELSE IF resp.body.shape # "Token"
         THEN token' = sr.token /\ Propagate(ReqwestDecode)
       ELSE /\ token' = resp.body.token
            /\ result' = NoResult
            /\ pc' = "find_core_version"

\* StarRealms::new up to the first probe: build the session, log in
New ==
    /\ pc = "idle"
    /\ \E username \in Usernames, password \in Passwords, resp \in LoginResponses :
          NewToken(NewSession(DefaultToken), username, password, resp)
    /\ ctor' = "new"
    /\ given' = NoArgument
    /\ core_version' = InitialCoreVersion
    /\ candidate' = FirstCoreVersion
    /\ UNCHANGED <<activityResult, calls, versionWrites>>
    /\ UNCHANGED gameVars

\* StarRealms::new_with_token2_str up to the first probe
NewWithToken2Str ==
    /\ pc = "idle"
    /\ \E t \in Bearers :
          /\ given' = [str |-> t, token |-> DefaultToken]
          /\ token' = [NewSession(DefaultToken).token EXCEPT !.token2 = t]
    /\ ctor' = "new_with_token2_str"
    /\ core_version' = InitialCoreVersion
    /\ candidate' = FirstCoreVersion
    /\ pc' = "find_core_version"
    /\ UNCHANGED <<wire, lastResponse, result, activityResult, calls, versionWrites>>
    /\ UNCHANGED gameVars

\* StarRealms::new_with_token up to the first probe
NewWithToken ==
    /\ pc = "idle"
    /\ \E t \in Tokens :
          /\ given' = [str |-> "", token |-> t]
          /\ token' = NewSession(t).token
    /\ ctor' = "new_with_token"
    /\ core_version' = InitialCoreVersion
    /\ candidate' = FirstCoreVersion
    /\ pc' = "find_core_version"
    /\ UNCHANGED <<wire, lastResponse, result, activityResult, calls, versionWrites>>
    /\ UNCHANGED gameVars

\* Variant: a failed await is retried with the same candidate
ProbeTransportErrorRetry ==
    /\ result' = NoResult
    /\ pc' = pc
    /\ UNCHANGED <<core_version, candidate, versionWrites>>

\* find_core_version, the await failed: `?` returns the transport error
ProbeTransportError ==
    /\ Propagate(ReqwestTransport)
    /\ UNCHANGED <<core_version, candidate, versionWrites>>

\* Variant: the candidate is adopted but the loop does not return
ProbeAdoptNoReturn ==
    /\ core_version' = candidate
    /\ versionWrites' = versionWrites + 1
    /\ candidate' = candidate + 1
    /\ IF candidate + 1 < EndCoreVersion
         THEN result' = NoResult /\ pc' = pc
         ELSE Propagate(UnknownCoreVersion)

\* find_core_version, status 200: adopt the candidate and return Ok(())
ProbeAdopt ==
    /\ core_version' = candidate
    /\ versionWrites' = versionWrites + 1
    /\ result' = Ok
    /\ pc' = "ready"
    /\ UNCHANGED candidate

\* Variant: an exhausted loop returns Ok(()) with the initial version
ProbeContinueDefault ==
    /\ candidate' = candidate + 1
    /\ IF candidate + 1 < EndCoreVersion
         THEN result' = NoResult /\ pc' = pc
         ELSE result' = Ok /\ pc' = "ready"
    /\ UNCHANGED <<core_version, versionWrites>>

\* find_core_version, another status: the reply is dropped and the loop goes on;
\* past the last candidate the function returns Err(UnknownCoreVersion)
ProbeContinue ==
    /\ candidate' = candidate + 1
    /\ IF candidate + 1 < EndCoreVersion
         THEN result' = NoResult /\ pc' = pc
         ELSE Propagate(UnknownCoreVersion)
    /\ UNCHANGED <<core_version, versionWrites>>

\* One iteration of the loop of find_core_version
Probe ==
    /\ pc = "find_core_version"
    /\ candidate \in FirstCoreVersion..(EndCoreVersion - 1)
    /\ \E resp \in ProbeResponses :
          /\ wire' = Append(wire, Exchange(ProbeRequest(candidate), resp))
          /\ lastResponse' = resp
          /\ IF ~resp.sent THEN ProbeTransportError
             ELSE IF resp.status = StatusOk THEN ProbeAdopt
             ELSE ProbeContinue
    /\ UNCHANGED <<ctor, given, token, activityResult, calls>>
    /\ UNCHANGED gameVars

\* What activity() returns for a reply
ActivityOutcome(resp) ==
    IF ~resp.sent THEN ReqwestTransport
    ELSE IF resp.status # StatusOk THEN InvalidAPIResponse(resp.status)
    ELSE IF resp.body.shape # "Activity" THEN ReqwestDecode
    ELSE [kind |-> "Ok", payload |-> <<resp.body.activity>>]

\* Variant: a rejected request is sent a second time
ActivityExchangesRetry(resp) ==
    IF resp.sent /\ resp.status # StatusOk
      THEN <<Exchange(ActivityRequest, resp), Exchange(ActivityRequest, resp)>>
      ELSE <<Exchange(ActivityRequest, resp)>>

\* The requests one activity() call sends, given the reply to the first
ActivityExchanges(resp) == <<Exchange(ActivityRequest, resp)>>

\* Variant: a rejected activity() resets the version for a new discovery
ActivityFrameRediscover ==
    /\ core_version' = IF activityResult'.kind = "InvalidAPIResponse"
                         THEN InitialCoreVersion ELSE core_version
    /\ versionWrites' = IF activityResult'.kind = "InvalidAPIResponse"
                          THEN versionWrites + 1 ELSE versionWrites
    /\ UNCHANGED <<pc, ctor, given, token, candidate, result>>

\* activity takes &self: it cannot assign to any field of the session
ActivityFrame ==
    UNCHANGED <<pc, ctor, given, token, core_version, candidate, result, versionWrites>>

\* activity(&self): one GET on the returned session
Activity ==
    /\ pc = "ready"
    /\ calls < MaxActivityCalls
    /\ \E resp \in ActivityResponses :
          /\ wire' = wire \o ActivityExchanges(resp)
          /\ lastResponse' = resp
          /\ activityResult' = ActivityOutcome(resp)
    /\ calls' = calls + 1
    /\ ActivityFrame
    /\ UNCHANGED gameVars

----------------------------------------------------------------------------
(* Game and ClientData *)

Chars == {"a", "A"}

RECURSIVE NamesUpTo(_)
NamesUpTo(n) ==
    IF n = 0 THEN {<<>>}
    ELSE LET shorter == NamesUpTo(n - 1)
         IN  shorter \cup {Append(w, c) : w \in shorter, c \in Chars}

\* Strings, as sequences of characters; <<>> is the empty string
Names == NamesUpTo(MaxNameLen)
AuthValues == (0 - MaxAuth)..MaxAuth

ClientDatas == [p1_auth : AuthValues, p2_auth : AuthValues, p1_name : Names, p2_name : Names]
Games == [clientdata : ClientDatas, opponentname : Names, actionneeded : BOOLEAN]

DefaultGame ==
    [clientdata |-> [p1_auth |-> 0, p2_auth |-> 0, p1_name |-> <<>>, p2_name |-> <<>>],
     opponentname |-> <<>>, actionneeded |-> FALSE]

NoAuth == [kind |-> "None", auth |-> 0, name |-> <<>>]

\* Variant: player two is matched first
get_auth_p2_first(self, name) ==
    IF name = self.p2_name THEN [kind |-> "Ok", auth |-> self.p2_auth, name |-> <<>>]
    ELSE IF name = self.p1_name THEN [kind |-> "Ok", auth |-> self.p1_auth, name |-> <<>>]
    ELSE [kind |-> "InvalidPlayerName", auth |-> 0, name |-> name]

\* ClientData::get_auth
get_auth(self, name) ==
    IF name = self.p1_name THEN [kind |-> "Ok", auth |-> self.p1_auth, name |-> <<>>]
    ELSE IF name = self.p2_name THEN [kind |-> "Ok", auth |-> self.p2_auth, name |-> <<>>]
    ELSE [kind |-> "InvalidPlayerName", auth |-> 0, name |-> name]

\* Variant: the comparison is inverted
is_player_one_inverted(self) == self.opponentname = self.clientdata.p1_name

\* Game::is_player_one
is_player_one(self) == self.opponentname # self.clientdata.p1_name

\* Game::which_turn
which_turn(self) ==
    IF self.actionneeded
      THEN IF is_player_one(self) THEN self.clientdata.p1_name
           ELSE self.clientdata.p2_name
      ELSE self.opponentname

GetAuth ==
    /\ \E name \in Names :
          /\ queryName' = name
          /\ authResult' = get_auth(game.clientdata, name)
    /\ gop' = "get_auth"
    /\ UNCHANGED <<game, playerOne, turnResult>>
    /\ UNCHANGED sessionVars

IsPlayerOne ==
    /\ playerOne' = is_player_one(game)
    /\ gop' = "is_player_one"
    /\ UNCHANGED <<game, queryName, authResult, turnResult>>
    /\ UNCHANGED sessionVars

WhichTurn ==
    /\ turnResult' = which_turn(game)
    /\ gop' = "which_turn"
    /\ UNCHANGED <<game, queryName, authResult, playerOne>>
    /\ UNCHANGED sessionVars

----------------------------------------------------------------------------
(* Specifications *)

SessionInit ==
    /\ pc = "idle"
    /\ ctor = "none"
    /\ given = NoArgument
    /\ token = DefaultToken
    /\ core_version = InitialCoreVersion
    /\ candidate = FirstCoreVersion
    /\ wire = <<>>
    /\ lastResponse = NoResponse
    /\ result = NoResult
    /\ activityResult = NoResult
    /\ calls = 0
    /\ versionWrites = 0

GameIdle ==
    /\ queryName = <<>>
    /\ gop = "none"
    /\ authResult = NoAuth
    /\ playerOne = FALSE
    /\ turnResult = <<>>

Init ==
    /\ SessionInit
    /\ game = DefaultGame
    /\ GameIdle

Next ==
    \/ New
    \/ NewWithToken2Str
    \/ NewWithToken
    \/ Probe
    \/ Activity

Spec == Init /\ [][Next]_vars

GameInit ==
    /\ SessionInit
    /\ game \in Games
    /\ GameIdle

GameNext ==
    \/ GetAuth
    \/ IsPlayerOne
    \/ WhichTurn

SpecGame == GameInit /\ [][GameNext]_vars

----------------------------------------------------------------------------
(* Properties of the session (checked under Spec) *)

IsProbe(e) == e.req.purpose = "probe"
IsLogin(e) == e.req.purpose = "login"
IsActivity(e) == e.req.purpose = "activity"

\* The probes sent so far, in the order they were sent
Probes == SelectSeq(wire, IsProbe)

Returned == pc \in {"ready", "failed"}

\* The login reply was a 200 whose body decodes as a Token
LoginOk ==
    /\ wire # <<>>
    /\ IsLogin(wire[1])
    /\ wire[1].reply = "200"
    /\ wire[1].shape = "Token"

\* C1: find_core_version probes one candidate at a time in strictly ascending
\* order, from 45 and no further than 99; a probe is followed by another only
\* if it returned a non-200 status; when the constructor returned Ok, the last
\* probe sent is the one that returned 200, it is the smallest such candidate,
\* core_version equals it, every smaller candidate was probed exactly once
\* with a non-200 reply and no larger candidate was probed.
C1_ProbeOrder ==
    LET p == Probes
        n == Len(Probes)
    IN  /\ n <= 99 - 45 + 1
        /\ \A i \in 1..n : p[i].req.coreversion = 45 + (i - 1)
        /\ \A i \in 1..n : p[i].req.coreversion <= 99
        /\ \A i \in 1..(n - 1) : p[i].reply = "non200"
        /\ result = Ok =>
              /\ n >= 1
              /\ p[n].reply = "200"
              /\ core_version = p[n].req.coreversion
              /\ \A i \in 1..n : p[i].reply = "200" => i = n

\* C1 witness: the last candidate, 99, is adopted after all 54 smaller ones failed
C1_Witness ==
    /\ result = Ok
    /\ core_version = 99
    /\ Len(Probes) = 55
    /\ Probes[1].req.coreversion = 45

NoProbeReturned200 == \A i \in 1..Len(wire) : IsProbe(wire[i]) => wire[i].reply # "200"
NoTransportError == \A i \in 1..Len(wire) : wire[i].reply # "transport"

\* C2 as stated: whenever no probe returned 200 and no transport error
\* occurred, the constructor (any of the three) returned Err(UnknownCoreVersion).
C2_Original ==
    (Returned /\ NoProbeReturned200 /\ NoTransportError) => result = UnknownCoreVersion

\* C2 amended: once version discovery is reached (for new: the login returned
\* 200 with a parseable Token), if no probe returned 200 and no transport error
\* occurred, the constructor returns Err(UnknownCoreVersion) after probing all
\* of 45..99; and no constructor returns Ok unless some probe returned 200, in
\* particular never with the initial version 45 kept by default.
C2_UnknownCoreVersion ==
    /\ (Returned /\ NoProbeReturned200 /\ NoTransportError /\ (ctor = "new" => LoginOk)) =>
          /\ result = UnknownCoreVersion
          /\ pc = "failed"
          /\ Len(Probes) = 55
    /\ (result = Ok \/ pc = "ready") =>
          \E i \in 1..Len(wire) :
              /\ IsProbe(wire[i])
              /\ wire[i].reply = "200"
              /\ wire[i].req.coreversion = core_version

\* C2 witness: new logged in, every candidate was rejected, UnknownCoreVersion
C2_Witness ==
    /\ ctor = "new"
    /\ LoginOk
    /\ result = UnknownCoreVersion
    /\ Len(Probes) = 55
    /\ NoTransportError

\* C3: when the login request of new gets a non-200 reply, new_token (and so
\* new) fails with InvalidAPIResponse whose payload starts with the status
\* code the server returned, and the session's Token is still the default one.
C3_LoginRejected ==
    (ctor = "new" /\ wire # <<>> /\ wire[1].reply = "non200") =>
        /\ Len(wire) = 1
        /\ pc = "failed"
        /\ result.kind = "InvalidAPIResponse"
        /\ result.payload[1] = lastResponse.status
        /\ lastResponse.status # 200
        /\ token = DefaultToken

\* C3 witness: a 401 whose body is a well-formed Token is rejected all the same
C3_Witness ==
    /\ ctor = "new"
    /\ Len(wire) = 1
    /\ lastResponse.sent
    /\ lastResponse.status = 401
    /\ lastResponse.body.shape = "Token"
    /\ result = Err("InvalidAPIResponse", <<401, "Unauthorized">>)

\* C4: in new, a failed login (non-200, transport error, malformed body) is
\* returned as the error of new and no probe is ever sent; the first probe is
\* sent only after a login that returned 200 with a parseable Token.
C4_LoginShortCircuit ==
    ctor = "new" =>
        /\ wire # <<>>
        /\ IsLogin(wire[1])
        /\ \A i \in 2..Len(wire) : ~IsLogin(wire[i])
        /\ ~LoginOk =>
              /\ Len(wire) = 1
              /\ pc = "failed"
              /\ result = (IF wire[1].reply = "transport" THEN ReqwestTransport
                           ELSE IF wire[1].reply = "non200"
                             THEN InvalidAPIResponse(lastResponse.status)
                           ELSE ReqwestDecode)
        /\ (\E i \in 1..Len(wire) : IsProbe(wire[i])) => LoginOk

\* C4 witness: a login answered 200 with a body that is no Token; new has failed
C4_Witness ==
    /\ ctor = "new"
    /\ pc = "failed"
    /\ wire[1].reply = "200"
    /\ wire[1].shape # "Token"
    /\ result = ReqwestDecode

\* C5: a non-200 probe is not surfaced (no result yet, the loop stands at the
\* next candidate, or has gone on), whereas a transport failure on a probe ends
\* the constructor at once with the transport error: that probe is the last
\* request sent, it is not sent again, and core_version was not assigned.
C5_ProbeErrors ==
    LET p == Probes
        n == Len(Probes)
    IN  \A i \in 1..n :
           /\ (p[i].reply = "non200" /\ p[i].req.coreversion < 99) =>
                 \/ i < n /\ p[i + 1].req.coreversion = p[i].req.coreversion + 1
                 \/ /\ i = n
                    /\ pc = "find_core_version"
                    /\ result = NoResult
                    /\ candidate = p[i].req.coreversion + 1
           /\ p[i].reply = "transport" =>
                 /\ i = n
                 /\ IsProbe(wire[Len(wire)])
                 /\ pc = "failed"
                 /\ result = ReqwestTransport
                 /\ core_version = InitialCoreVersion
                 /\ versionWrites = 0
                 /\ \A j \in 1..n : p[j].req.coreversion = p[i].req.coreversion => j = i

\* C5 witness: two rejected probes, then a transport failure on the third
C5_Witness ==
    /\ Len(Probes) = 3
    /\ Probes[1].reply = "non200"
    /\ Probes[2].reply = "non200"
    /\ Probes[3].reply = "transport"
    /\ result = ReqwestTransport

\* C6: new_with_token2_str and new_with_token send no login request, every
\* probe carries the caller's bearer value in Auth, and on success the Token
\* is the default Token with token2 set to the supplied string, respectively
\* exactly the supplied Token.
C6_TokenConstructors ==
    /\ ctor = "new_with_token2_str" =>
          /\ \A i \in 1..Len(wire) : ~IsLogin(wire[i])
          /\ \A i \in 1..Len(wire) : IsProbe(wire[i]) => wire[i].req.auth = given.str
          /\ result = Ok =>
                token = [username |-> "", id |-> 0, token1 |-> "",
                         token2 |-> given.str, purchases |-> <<>>]
    /\ ctor = "new_with_token" =>
          /\ \A i \in 1..Len(wire) : ~IsLogin(wire[i])
          /\ \A i \in 1..Len(wire) : IsProbe(wire[i]) => wire[i].req.auth = given.token.token2
          /\ result = Ok => token = given.token
    /\ ctor \in {"new_with_token2_str", "new_with_token"} =>
          (pc # "idle" /\ (Returned => wire # <<>>))

\* C6 witness: new_with_token succeeded on its third probe with a full Token
C6_Witness ==
    /\ ctor = "new_with_token"
    /\ result = Ok
    /\ given.token.token1 = "k1"
    /\ given.token.token2 = "b2"
    /\ Len(Probes) = 3

\* C7: after each call of activity() exactly one more GET is on the wire (as
\* many activity requests as calls), the last one carries the session's token2
\* and the version adopted during bootstrap, and the call returned
\* InvalidAPIResponse with the reply's status for a non-200 reply, the decoded
\* Activity for a 200 reply that decodes, a decode error for a 200 reply that
\* does not: a function of this call's reply alone.
C7_Activity ==
    calls > 0 =>
        LET last == wire[Len(wire)]
            n == Len(Probes)
        IN  /\ Cardinality({i \in 1..Len(wire) : IsActivity(wire[i])}) = calls
            /\ \A i \in 1..Len(wire) : IsActivity(wire[i]) <=> i > Len(wire) - calls
            /\ last.req.url = ActivityUrl
            /\ last.req.auth = token.token2
            /\ last.req.coreversion = core_version
            /\ Probes[n].reply = "200"
            /\ last.req.coreversion = Probes[n].req.coreversion
            /\ (lastResponse.sent /\ lastResponse.status # 200) =>
                  /\ activityResult.kind = "InvalidAPIResponse"
                  /\ activityResult.payload[1] = lastResponse.status
            /\ (lastResponse.sent /\ lastResponse.status = 200
                  /\ lastResponse.body.shape = "Activity") =>
                  activityResult = [kind |-> "Ok", payload |-> <<lastResponse.body.activity>>]
            /\ (lastResponse.sent /\ lastResponse.status = 200
                  /\ lastResponse.body.shape # "Activity") =>
                  activityResult = ReqwestDecode
            /\ ~lastResponse.sent => activityResult = ReqwestTransport

\* C7 witness: a rejected call followed by a call that returned an Activity
C7_Witness ==
    /\ calls = 2
    /\ wire[Len(wire) - 1].reply = "non200"
    /\ IsActivity(wire[Len(wire) - 1])
    /\ activityResult.kind = "Ok"
    /\ core_version = 47

\* C8: once the constructor has returned a session, no step changes
\* core_version or token or sends another probe, and core_version is assigned
\* at most once after construction, during bootstrap.
C8_ReadOnlyAfterBootstrap ==
    /\ [](versionWrites <= 1)
    /\ [][pc = "ready" =>
            /\ core_version' = core_version
            /\ token' = token
            /\ versionWrites' = versionWrites
            /\ Len(Probes') = Len(Probes)
            /\ pc' = "ready"]_vars

\* C8 witness: two activity() calls, the last one rejected, on a session at version 46
C8_Witness ==
    /\ calls = 2
    /\ pc = "ready"
    /\ activityResult.kind = "InvalidAPIResponse"
    /\ versionWrites = 1
    /\ core_version = 46

----------------------------------------------------------------------------
(* Properties of ClientData and Game (checked under SpecGame) *)

AuthOk(a) == [kind |-> "Ok", auth |-> a, name |-> <<>>]

\* C9 as stated: get_auth(name) returns player one's auth value when name
\* equals p1_name, player two's when name equals p2_name, and fails with
\* InvalidPlayerName when name equals neither, whatever the two names are.
C9_Original ==
    gop = "get_auth" =>
        LET cd == game.clientdata
        IN  /\ queryName = cd.p1_name => authResult = AuthOk(cd.p1_auth)
            /\ queryName = cd.p2_name => authResult = AuthOk(cd.p2_auth)
            /\ (queryName # cd.p1_name /\ queryName # cd.p2_name) =>
                  authResult = [kind |-> "InvalidPlayerName", auth |-> 0, name |-> queryName]

\* C9 amended: get_auth(name) returns player one's auth value when name equals
\* p1_name (also when p2_name is the same name), player two's when name equals
\* p2_name and differs from p1_name, and fails with InvalidPlayerName carrying
\* the name when it equals neither; names are compared exactly, the empty name
\* included.
C9_GetAuth ==
    gop = "get_auth" =>
        LET cd == game.clientdata
        IN  /\ queryName = cd.p1_name => authResult = AuthOk(cd.p1_auth)
            /\ (queryName = cd.p2_name /\ queryName # cd.p1_name) =>
                  authResult = AuthOk(cd.p2_auth)
            /\ (queryName # cd.p1_name /\ queryName # cd.p2_name) =>
                  authResult = [kind |-> "InvalidPlayerName", auth |-> 0, name |-> queryName]

\* C9 witness: both players carry the same (empty) name with different auth
\* values, and the lookup of that name returned player one's
C9_Witness ==
    /\ gop = "get_auth"
    /\ game.clientdata.p1_name = <<>>
    /\ game.clientdata.p2_name = <<>>
    /\ queryName = <<>>
    /\ game.clientdata.p1_auth # game.clientdata.p2_auth
    /\ authResult = AuthOk(game.clientdata.p1_auth)

\* C10 as stated: is_player_one() iff opponentname differs from p1_name;
\* which_turn() is the opponent's name when actionneeded is false and the
\* user's own name otherwise, and then never the opponent's name.
C10_Original ==
    /\ gop = "is_player_one" =>
          (playerOne <=> game.opponentname # game.clientdata.p1_name)
    /\ gop = "which_turn" =>
          /\ ~game.actionneeded => turnResult = game.opponentname
          /\ game.actionneeded =>
                /\ turnResult = (IF game.opponentname # game.clientdata.p1_name
                                   THEN game.clientdata.p1_name
                                   ELSE game.clientdata.p2_name)
                /\ turnResult # game.opponentname

\* C10 amended: is_player_one() iff opponentname differs from p1_name;
\* which_turn() is the opponent's name when actionneeded is false and, when it
\* is true, p1_name if is_player_one() and p2_name otherwise; that name differs
\* from the opponent's name unless p1_name and p2_name both equal opponentname.
C10_WhichTurn ==
    /\ gop = "is_player_one" =>
          (playerOne <=> game.opponentname # game.clientdata.p1_name)
    /\ gop = "which_turn" =>
          /\ ~game.actionneeded => turnResult = game.opponentname
          /\ game.actionneeded =>
                /\ turnResult = (IF game.opponentname # game.clientdata.p1_name
                                   THEN game.clientdata.p1_name
                                   ELSE game.clientdata.p2_name)
                /\ (turnResult = game.opponentname) <=>
                      /\ game.clientdata.p1_name = game.opponentname
                      /\ game.clientdata.p2_name = game.opponentname

\* C10 witness: the user is player two and has to act; which_turn is p2_name
C10_Witness ==
    /\ gop = "which_turn"
    /\ game.actionneeded
    /\ game.opponentname = game.clientdata.p1_name
    /\ game.clientdata.p2_name # game.opponentname
    /\ game.opponentname = <<>>
    /\ turnResult = game.clientdata.p2_name

====
